---- MODULE Spec2Model ----
(***************************************************************************)
(* TaskDock (dock.pyw): a file-backed store of two task lists              *)
(* (TaskManager) and the dock window that drives it (FancyDock).           *)
(*                                                                         *)
(* Python strings are sequences of one-character strings, so that strip,   *)
(* replace and the JSON text can be computed rather than assumed.          *)
(* The task file is the sequence of the lexical elements of its JSON text. *)
(*                                                                         *)
(* Two specifications share the state:                                     *)
(*   Spec    the running application: FancyDock and its event handlers;    *)
(*   SpecTM  the TaskManager class called directly, with any index.        *)
(***************************************************************************)
EXTENDS Integers, Sequences, FiniteSets, TLC

\* ---------------------------------------------------------------- bounds
MaxTasks == 2
MaxDay == 2

\* ------------------------------------------------------ program constants
win_width == 320
peek_width == 45
ScreenWidth == 1920

\* --------------------------------------------------------------- strings
\* What the user can have typed into the input box when Return is pressed:
\* nothing, blanks only, a plain text, a text with blanks around it, the
\* daily marker alone, and the marker before or after a text, next to it or
\* separated by a blank.
TypedStrings ==
    { <<>>, <<" ">>, <<" ", " ">>,
      <<"a">>, <<"b">>, <<" ", "a", " ">>,
      <<"*">>, <<" ", "*">>,
      <<"*", "a">>, <<"b", "*">>, <<"*", " ", "a">> }

\* texts handed to TaskManager.add_task when it is called directly
TMTexts == {<<>>, <<"a">>}

RECURSIVE LStrip(_)
LStrip(s) == IF s # <<>> /\ Head(s) = " " THEN LStrip(Tail(s)) ELSE s

RECURSIVE RStrip(_)
RStrip(s) ==
    IF s # <<>> /\ s[Len(s)] = " " THEN RStrip(SubSeq(s, 1, Len(s) - 1)) ELSE s

\* str.strip()
strip(s) == RStrip(LStrip(s))

\* str.replace("*", "")
RECURSIVE remove_stars(_)
remove_stars(s) ==
    IF s = <<>> THEN <<>>
    ELSE IF Head(s) = "*" THEN remove_stars(Tail(s))
         ELSE <<Head(s)>> \o remove_stars(Tail(s))

\* "*" in text
has_star(s) == \E i \in 1..Len(s) : s[i] = "*"

\* ----------------------------------------------------------------- dates
TwoDigits == <<"01", "02", "03", "04", "05", "06", "07", "08", "09">>

\* datetime.now().strftime("%Y-%m-%d"); day d is the d-th of January 2024
strftime(d) == <<"2024", "-", "01", "-", TwoDigits[d]>>

\* ------------------------------------------------------------- JSON text
\* The file content is the sequence of the JSON text's lexical elements: the
\* brackets, each object key with its colon, the literals true and false, and
\* every string value as an opening quote, its characters and a closing quote.
\* Commas and whitespace are left out.
Quote == "\""
KeyLastDate == "\"last_date\":"
KeyDaily == "\"daily\":"
KeyTodo == "\"todo\":"
KeyText == "\"text\":"
KeyDone == "\"done\":"

JStr(s) == <<Quote>> \o s \o <<Quote>>
JBool(b) == IF b THEN "true" ELSE "false"

RECURSIVE DumpTasks(_)
DumpTasks(tasks) ==
    IF tasks = <<>> THEN <<>>
    ELSE <<"{", KeyText>> \o JStr(Head(tasks).text)
         \o <<KeyDone, JBool(Head(tasks).done), "}">> \o DumpTasks(Tail(tasks))

\* json.dump(self.data, f, ...)
json_dump(d) ==
    <<"{", KeyLastDate>> \o JStr(d.last_date)
    \o <<KeyDaily, "[">> \o DumpTasks(d.daily)
    \o <<"]", KeyTodo, "[">> \o DumpTasks(d.todo) \o <<"]", "}">>

\* a string value starting at position i: its characters and the position
\* after its closing quote
NoStr == [ok |-> FALSE, val |-> <<>>, next |-> 0]
ReadStr(f, i) ==
    IF i > Len(f) \/ f[i] # Quote \/ ~ \E j \in (i + 1)..Len(f) : f[j] = Quote
    THEN NoStr
    ELSE LET j == CHOOSE j \in (i + 1)..Len(f) :
                    /\ f[j] = Quote
                    /\ \A k \in (i + 1)..(j - 1) : f[k] # Quote
         IN  [ok |-> TRUE, val |-> SubSeq(f, i + 1, j - 1), next |-> j + 1]

ParseFail == [ok |-> FALSE, tasks |-> <<>>, next |-> 0]

\* the elements of a list of {text, done} objects, from position i up to and
\* including the closing bracket
RECURSIVE ParseTasks(_, _, _)
ParseTasks(f, i, acc) ==
    IF i > Len(f) THEN ParseFail
    ELSE IF f[i] = "]" THEN [ok |-> TRUE, tasks |-> acc, next |-> i + 1]
    ELSE IF ~ (i + 1 <= Len(f) /\ f[i] = "{" /\ f[i + 1] = KeyText) THEN ParseFail
    ELSE LET t == ReadStr(f, i + 2) IN
         IF ~ (/\ t.ok
               /\ t.next + 2 <= Len(f)
               /\ f[t.next] = KeyDone
               /\ f[t.next + 1] \in {"true", "false"}
               /\ f[t.next + 2] = "}")
         THEN ParseFail
         ELSE ParseTasks(f, t.next + 3,
                         Append(acc, [text |-> t.val, done |-> (f[t.next + 1] = "true")]))

DefaultData == [last_date |-> <<>>, daily |-> <<>>, todo |-> <<>>]

JsonError == [ok |-> FALSE, data |-> DefaultData]

\* json.load(f): ok = FALSE stands for the exception json.load raises
json_load(f) ==
    IF ~ (Len(f) >= 2 /\ f[1] = "{" /\ f[2] = KeyLastDate) THEN JsonError
    ELSE LET ld == ReadStr(f, 3) IN
         IF ~ (/\ ld.ok
               /\ ld.next + 1 <= Len(f)
               /\ f[ld.next] = KeyDaily
               /\ f[ld.next + 1] = "[")
         THEN JsonError
         ELSE LET dl == ParseTasks(f, ld.next + 2, <<>>) IN
              IF ~ (/\ dl.ok
                    /\ dl.next + 1 <= Len(f)
                    /\ f[dl.next] = KeyTodo
                    /\ f[dl.next + 1] = "[")
              THEN JsonError
              ELSE LET tl == ParseTasks(f, dl.next + 2, <<>>) IN
                   IF ~ (tl.ok /\ tl.next = Len(f) /\ f[tl.next] = "}")
                   THEN JsonError
                   ELSE [ok |-> TRUE,
                         data |-> [last_date |-> ld.val,
                                   daily |-> dl.tasks,
                                   todo |-> tl.tasks]]

\* the task file: absent, or present with some content
MissingFile == [exists |-> FALSE, content |-> <<>>]
\* a file cut short: not JSON
TruncatedFile == [exists |-> TRUE, content |-> <<"{", KeyLastDate, Quote, "2024">>]
EmptyFile == [exists |-> TRUE, content |-> <<>>]

\* ---------------------------------------------------------- TaskManager
\* A store is the pair (self.data, the file on disk).

\* TaskManager.save
save(d) == [exists |-> TRUE, content |-> json_dump(d)]

ResetDaily_keep(tasks) == tasks
ResetDaily(tasks) == [i \in 1..Len(tasks) |-> [tasks[i] EXCEPT !.done = FALSE]]

\* the data read at the top of TaskManager.load
ReadData(f) ==
    IF ~ f.exists THEN DefaultData
    ELSE IF json_load(f.content).ok THEN json_load(f.content).data
         ELSE DefaultData

\* which branch of TaskManager.load produced the data
ReadBranch(f) ==
    IF ~ f.exists THEN "missing"
    ELSE IF json_load(f.content).ok THEN "parsed" ELSE "unparsable"

load_nosave(f, day) ==
    LET d == ReadData(f)
        today_s == strftime(day)
    IN  IF d.last_date # today_s
        THEN LET nd == [d EXCEPT !.daily = ResetDaily(d.daily), !.last_date = today_s]
             IN  [data |-> nd, file |-> f, reset |-> TRUE, branch |-> ReadBranch(f)]
        ELSE [data |-> d, file |-> f, reset |-> FALSE, branch |-> ReadBranch(f)]
\* TaskManager.load; reset tells whether the date branch was taken
load(f, day) ==
    LET d == ReadData(f)
        today_s == strftime(day)
    IN  IF d.last_date # today_s
        THEN LET nd == [d EXCEPT !.daily = ResetDaily(d.daily), !.last_date = today_s]
             IN  [data |-> nd, file |-> save(nd), reset |-> TRUE, branch |-> ReadBranch(f)]
        ELSE [data |-> d, file |-> f, reset |-> FALSE, branch |-> ReadBranch(f)]

add_task_front(st, text, is_daily) ==
    LET rec == [text |-> text, done |-> FALSE]
        nd == IF is_daily THEN [st.data EXCEPT !.daily = <<rec>> \o @]
              ELSE [st.data EXCEPT !.todo = <<rec>> \o @]
    IN  [data |-> nd, file |-> save(nd)]
\* TaskManager.add_task
add_task(st, text, is_daily) ==
    LET rec == [text |-> text, done |-> FALSE]
        nd == IF is_daily THEN [st.data EXCEPT !.daily = Append(@, rec)]
              ELSE [st.data EXCEPT !.todo = Append(@, rec)]
    IN  [data |-> nd, file |-> save(nd)]

Target(d, is_daily) == IF is_daily THEN d.daily ELSE d.todo

toggle_task_nosave(st, is_daily, index) ==
    IF 0 <= index /\ index < Len(Target(st.data, is_daily))
    THEN LET nd == IF is_daily
                   THEN [st.data EXCEPT !.daily[index + 1].done = ~ @]
                   ELSE [st.data EXCEPT !.todo[index + 1].done = ~ @]
         IN  [data |-> nd, file |-> st.file]
    ELSE st
toggle_task_set(st, is_daily, index) ==
    IF 0 <= index /\ index < Len(Target(st.data, is_daily))
    THEN LET nd == IF is_daily
                   THEN [st.data EXCEPT !.daily[index + 1].done = TRUE]
                   ELSE [st.data EXCEPT !.todo[index + 1].done = TRUE]
         IN  [data |-> nd, file |-> save(nd)]
    ELSE st
\* TaskManager.toggle_task (index is 0-based, as in the source)
toggle_task(st, is_daily, index) ==
    IF 0 <= index /\ index < Len(Target(st.data, is_daily))
    THEN LET nd == IF is_daily
                   THEN [st.data EXCEPT !.daily[index + 1].done = ~ @]
                   ELSE [st.data EXCEPT !.todo[index + 1].done = ~ @]
         IN  [data |-> nd, file |-> save(nd)]
    ELSE st

\* del target[index]
DelAt(s, index) == SubSeq(s, 1, index) \o SubSeq(s, index + 2, Len(s))

\* TaskManager.remove_task
remove_task(st, is_daily, index) ==
    IF 0 <= index /\ index < Len(Target(st.data, is_daily))
    THEN LET nd == IF is_daily
                   THEN [st.data EXCEPT !.daily = DelAt(@, index)]
                   ELSE [st.data EXCEPT !.todo = DelAt(@, index)]
         IN  [data |-> nd, file |-> save(nd)]
    ELSE st

RECURSIVE CountUndone(_)
CountUndone(tasks) ==
    IF tasks = <<>> THEN 0
    ELSE (IF ~ Head(tasks).done THEN 1 ELSE 0) + CountUndone(Tail(tasks))

get_undone_count_daily(d) == CountUndone(d.daily)
\* TaskManager.get_undone_count
get_undone_count(d) == CountUndone(d.daily) + CountUndone(d.todo)

\* ------------------------------------------------------------ FancyDock
GREEN == "#00f260"
RED == "#FF0000"
PINK == "#ec008c"
ARROW_COLLAPSED == "<"
ARROW_EXPANDED == ">"

NoMessage == [title |-> "none", count |-> 0]
StartedMessage == [title |-> "started", count |-> 0]
ReminderMessage(n) == [title |-> "reminder", count |-> n]

\* FancyDock.add_item for every record of one list: the item's UserRole data
\* (daily, text) and the done state its widget is drawn with
ItemsOf(tasks, is_daily) ==
    [i \in 1..Len(tasks) |->
        [daily |-> is_daily, text |-> tasks[i].text, is_done |-> tasks[i].done]]

RECURSIVE CountDone(_)
CountDone(tasks) ==
    IF tasks = <<>> THEN 0
    ELSE (IF Head(tasks).done THEN 1 ELSE 0) + CountDone(Tail(tasks))

\* FancyDock.refresh_list: the rebuilt list widget, the progress value and
\* the handle colour (neon is the colour before the call)
refresh_list(d, neon) ==
    LET total == Len(d.daily) + Len(d.todo)
        done_c == CountDone(d.daily) + CountDone(d.todo)
    IN  [items |-> ItemsOf(d.daily, TRUE) \o ItemsOf(d.todo, FALSE),
         progress |-> IF total = 0 THEN 0 ELSE (done_c * 100) \div total,
         neon |-> IF done_c = total /\ total > 0 THEN GREEN ELSE neon]

\* the loop "for i, task in enumerate(target): if task["text"] == data["text"]"
\* of on_item_clicked and show_context_menu: the 0-based index it stops at,
\* -1 when it runs to the end
FirstMatch(target, text) ==
    IF \E i \in 1..Len(target) : target[i].text = text
    THEN (CHOOSE i \in 1..Len(target) :
             /\ target[i].text = text
             /\ \A j \in 1..(i - 1) : target[j].text # text) - 1
    ELSE -1

\* a history record: the call, its boolean argument, its index argument and
\* its string argument (those it has)
Op(op, flag, index, text) ==
    [op |-> op, flag |-> flag, index |-> index, text |-> text]

VARIABLES
    pc,            \* "off": no process; "running": the objects exist
    today,         \* the calendar day (environment)
    file,          \* tasks.json
    data,          \* TaskManager.data
    is_expanded,   \* FancyDock.is_expanded
    arrow,         \* text of FancyDock.arrow
    neon_strip,    \* background colour of FancyDock.neon_strip
    geom_x,        \* x of the window geometry (end value of the animation)
    progress_bar,  \* value of FancyDock.progress_bar
    list_widget,   \* the items of FancyDock.list_widget, top to bottom
    shown,         \* the tray message shown by the latest step
    last           \* history: the latest direct call on TaskManager with its
                   \* arguments, or the change of day that came after it (the
                   \* application's handlers leave it alone)

vars == <<pc, today, file, data, is_expanded, arrow, neon_strip, geom_x,
          progress_bar, list_widget, shown, last>>

ui == <<is_expanded, arrow, neon_strip, geom_x, progress_bar, list_widget, shown>>

store == [data |-> data, file |-> file]
TaskCount == Len(data.daily) + Len(data.todo)

Init ==
    /\ pc = "off"
    /\ today = 1
    /\ file \in {MissingFile, EmptyFile, TruncatedFile}
    /\ data = DefaultData
    /\ is_expanded = FALSE
    /\ arrow = ARROW_COLLAPSED
    /\ neon_strip = GREEN
    /\ geom_x = ScreenWidth - peek_width
    /\ progress_bar = 0
    /\ list_widget = <<>>
    /\ shown = NoMessage
    /\ last = Op("init", FALSE, 0, <<>>)

\* midnight passes, whether or not the program is running
NextDay ==
    /\ today < MaxDay
    /\ today' = today + 1
    /\ last' = Op("NextDay", FALSE, 0, <<>>)
    /\ UNCHANGED <<pc, file, data, ui>>

\* ---------------------------------------------- TaskManager called directly
\* TaskManager(): a new instance on the same file (replaces the old one)
TaskManager_init ==
    /\ LET r == load(file, today) IN
        /\ data' = r.data
        /\ file' = r.file
        /\ last' = Op("TaskManager", r.reset, 0, <<r.branch>>)
    /\ pc' = "running"
    /\ UNCHANGED <<today, ui>>

call_add_task ==
    /\ pc = "running"
    /\ TaskCount < MaxTasks
    /\ \E text \in TMTexts, is_daily \in BOOLEAN :
        LET r == add_task(store, text, is_daily) IN
        /\ data' = r.data
        /\ file' = r.file
        /\ last' = Op("add_task", is_daily, 0, text)
    /\ UNCHANGED <<pc, today, ui>>

call_toggle_task ==
    /\ pc = "running"
    /\ \E is_daily \in BOOLEAN, index \in -1..MaxTasks :
        LET r == toggle_task(store, is_daily, index) IN
        /\ data' = r.data
        /\ file' = r.file
        /\ last' = Op("toggle_task", is_daily, index, <<>>)
    /\ UNCHANGED <<pc, today, ui>>

call_remove_task ==
    /\ pc = "running"
    /\ \E is_daily \in BOOLEAN, index \in -1..MaxTasks :
        LET r == remove_task(store, is_daily, index) IN
        /\ data' = r.data
        /\ file' = r.file
        /\ last' = Op("remove_task", is_daily, index, <<>>)
    /\ UNCHANGED <<pc, today, ui>>

NextTM ==
    \/ TaskManager_init
    \/ call_add_task
    \/ call_toggle_task
    \/ call_remove_task
    \/ NextDay

SpecTM == Init /\ [][NextTM]_vars

\* ------------------------------------------------------- the application
\* FancyDock.__init__: TaskManager(), init_ui, init_tray, refresh_list,
\* reset_position
FancyDock_init ==
    /\ pc = "off"
    /\ pc' = "running"
    /\ LET r == load(file, today)
           v == refresh_list(r.data, GREEN)
       IN
        /\ data' = r.data
        /\ file' = r.file
        /\ list_widget' = v.items
        /\ progress_bar' = v.progress
        /\ neon_strip' = v.neon
    /\ arrow' = ARROW_COLLAPSED
    /\ shown' = StartedMessage
    /\ geom_x' = ScreenWidth - peek_width
    /\ is_expanded' = FALSE
    /\ UNCHANGED <<today, last>>

\* the tray menu's quit entry: the process ends, the file stays
quit ==
    /\ pc = "running"
    /\ pc' = "off"
    /\ data' = DefaultData
    /\ is_expanded' = FALSE
    /\ arrow' = ARROW_COLLAPSED
    /\ neon_strip' = GREEN
    /\ geom_x' = ScreenWidth - peek_width
    /\ progress_bar' = 0
    /\ list_widget' = <<>>
    /\ shown' = NoMessage
    /\ UNCHANGED <<today, file, last>>

\* FancyDock.animate: the fields it leaves behind
animate(expand) ==
    IF is_expanded = expand
    THEN UNCHANGED <<is_expanded, arrow, neon_strip, geom_x>>
    ELSE /\ is_expanded' = expand
         /\ arrow' = IF expand THEN ARROW_EXPANDED ELSE ARROW_COLLAPSED
         /\ neon_strip' = IF expand THEN PINK ELSE GREEN
         /\ geom_x' = IF expand THEN ScreenWidth - win_width ELSE ScreenWidth - peek_width

enterEvent ==
    /\ pc = "running"
    /\ animate(TRUE)
    /\ shown' = NoMessage
    /\ UNCHANGED <<pc, today, file, data, progress_bar, list_widget, last>>

\* hasFocus is input_box.hasFocus() at the time of the event
leaveEvent ==
    /\ pc = "running"
    /\ \E hasFocus \in BOOLEAN :
        IF ~ hasFocus THEN animate(FALSE)
        ELSE UNCHANGED <<is_expanded, arrow, neon_strip, geom_x>>
    /\ shown' = NoMessage
    /\ UNCHANGED <<pc, today, file, data, progress_bar, list_widget, last>>

\* the tray menu's "reset position" entry: FancyDock.reset_position
reset_position ==
    /\ pc = "running"
    /\ geom_x' = ScreenWidth - peek_width
    /\ is_expanded' = FALSE
    /\ shown' = NoMessage
    /\ UNCHANGED <<pc, today, file, data, arrow, neon_strip, progress_bar, list_widget, last>>

\* the reminder timer fires: FancyDock.check_reminders
check_reminders ==
    /\ pc = "running"
    /\ LET count == get_undone_count(data) IN
        IF count > 0
        THEN shown' = ReminderMessage(count) /\ neon_strip' = RED
        ELSE shown' = NoMessage /\ UNCHANGED neon_strip
    /\ UNCHANGED <<pc, today, file, data, is_expanded, arrow, geom_x,
                   progress_bar, list_widget, last>>

\* FancyDock.on_item_clicked for the item in row `row` (1-based, top to
\* bottom)
item_clicked(row) ==
    /\ pc = "running"
    /\ LET item == list_widget[row]
           i == FirstMatch(Target(data, item.daily), item.text)
           r == IF i >= 0 THEN toggle_task(store, item.daily, i) ELSE store
           v == refresh_list(r.data, neon_strip)
       IN
        /\ data' = r.data
        /\ file' = r.file
        /\ list_widget' = v.items
        /\ progress_bar' = v.progress
        /\ neon_strip' = v.neon
    /\ shown' = NoMessage
    /\ UNCHANGED <<pc, today, is_expanded, arrow, geom_x, last>>

\* the user clicks one of the displayed items
on_item_clicked == \E row \in 1..Len(list_widget) : item_clicked(row)

\* Return is pressed in the input box holding `typed`
handle_input ==
    /\ pc = "running"
    /\ \E typed \in TypedStrings :
        LET text == strip(typed) IN
        IF text = <<>>
        THEN UNCHANGED <<data, file, list_widget, progress_bar, neon_strip>>
        ELSE LET is_daily == has_star(text)
                 clean_text == strip(remove_stars(text))
                 r == add_task(store, clean_text, is_daily)
                 v == refresh_list(r.data, neon_strip)
             IN
             /\ TaskCount < MaxTasks
             /\ data' = r.data
             /\ file' = r.file
             /\ list_widget' = v.items
             /\ progress_bar' = v.progress
             /\ neon_strip' = v.neon
    /\ shown' = NoMessage
    /\ UNCHANGED <<pc, today, is_expanded, arrow, geom_x, last>>

\* FancyDock.show_context_menu for a right click on the item in row `row`;
\* row 0 is a position with no item under it, delete tells whether the menu's
\* delete entry was chosen
context_menu(row, delete) ==
    /\ pc = "running"
    /\ IF row = 0 \/ ~ delete
       THEN UNCHANGED <<data, file, list_widget, progress_bar, neon_strip>>
       ELSE LET item == list_widget[row]
                i == FirstMatch(Target(data, item.daily), item.text)
                r == IF i >= 0 THEN remove_task(store, item.daily, i) ELSE store
                v == refresh_list(r.data, neon_strip)
            IN
            /\ data' = r.data
            /\ file' = r.file
            /\ list_widget' = v.items
            /\ progress_bar' = v.progress
            /\ neon_strip' = v.neon
    /\ shown' = NoMessage
    /\ UNCHANGED <<pc, today, is_expanded, arrow, geom_x, last>>

show_context_menu ==
    \E row \in 0..Len(list_widget), delete \in BOOLEAN : context_menu(row, delete)

Next ==
    \/ FancyDock_init
    \/ quit
    \/ NextDay
    \/ enterEvent
    \/ leaveEvent
    \/ reset_position
    \/ check_reminders
    \/ on_item_clicked
    \/ handle_input
    \/ show_context_menu

Spec == Init /\ [][Next]_vars

\* ------------------------------------------------------------ properties
Undone(tasks) == Cardinality({i \in 1..Len(tasks) : ~ tasks[i].done})

\* the file holds exactly the state d
FileHolds(f, d) ==
    /\ f.exists
    /\ json_load(f.content).ok
    /\ json_load(f.content).data = d

\* C1: while the program runs, a daily entry is marked done only if the
\* stored last_date is the current calendar date.
C1_DailyDoneOnlyToday ==
    pc = "running" =>
        \A i \in 1..Len(data.daily) :
            data.daily[i].done => data.last_date = strftime(today)

\* C2: load of a well-formed file whose last_date is not today clears every
\* daily done flag, sets last_date to today, keeps the texts and order of both
\* lists and the todo flags, and rewrites the file with that state.
C2_LoadResetsOnNewDate ==
    [][(/\ last'.op = "TaskManager"
        /\ file.exists
        /\ json_load(file.content).ok
        /\ json_load(file.content).data.last_date # strftime(today))
       => LET old == json_load(file.content).data IN
          /\ data'.last_date = strftime(today')
          /\ Len(data'.daily) = Len(old.daily)
          /\ \A i \in 1..Len(old.daily) :
                /\ data'.daily[i].text = old.daily[i].text
                /\ data'.daily[i].done = FALSE
          /\ data'.todo = old.todo
          /\ FileHolds(file', data')]_vars

C2_Witness ==
    /\ last = Op("TaskManager", TRUE, 0, <<"parsed">>)
    /\ Len(data.daily) > 0
    /\ \E i \in 1..Len(data.todo) : data.todo[i].done

\* C3: a new TaskManager on the same file on the same calendar date reads
\* back the in-memory data of the old instance and takes no reset.
C3_RoundTrip ==
    [][(/\ last'.op = "TaskManager"
        /\ pc = "running"
        /\ data.last_date = strftime(today))
       => (/\ data' = data
           /\ last'.flag = FALSE
           /\ file' = file)]_vars

C3_Witness ==
    /\ last = Op("TaskManager", FALSE, 0, <<"parsed">>)
    /\ \E i \in 1..Len(data.daily) : data.daily[i].done
    /\ Len(data.todo) > 0

\* C4: a missing or unparsable file gives the empty default state dated
\* today, written to the file.
C4_DefaultOnBadFile ==
    [][(/\ last'.op = "TaskManager"
        /\ (~ file.exists \/ ~ json_load(file.content).ok))
       => (/\ data' = [last_date |-> strftime(today'), daily |-> <<>>, todo |-> <<>>]
           /\ FileHolds(file', data'))]_vars

C4_Witness ==
    /\ last.op = "TaskManager"
    /\ last.text \in {<<"missing">>, <<"unparsable">>}
    /\ data.daily = <<>> /\ data.todo = <<>>
    /\ data.last_date = strftime(today)
    /\ file.exists

\* C5: add_task appends one record {text, done: false} to the selected list,
\* keeps every earlier entry in place, leaves the other list and last_date
\* alone and writes the new state to the file.
C5_AddAppends ==
    [][last'.op = "add_task"
       => LET is_daily == last'.flag
              old == IF is_daily THEN data.daily ELSE data.todo
              new == IF is_daily THEN data'.daily ELSE data'.todo
          IN
          /\ Len(new) = Len(old) + 1
          /\ \A i \in 1..Len(old) : new[i] = old[i]
          /\ new[Len(new)] = [text |-> last'.text, done |-> FALSE]
          /\ IF is_daily THEN data'.todo = data.todo ELSE data'.daily = data.daily
          /\ data'.last_date = data.last_date
          /\ FileHolds(file', data')]_vars

C5_Witness ==
    /\ last.op = "add_task"
    /\ LET l == IF last.flag THEN data.daily ELSE data.todo IN
        /\ Len(l) >= 2
        /\ l[1].done
        /\ l[1].text # l[Len(l)].text

\* C6: toggle_task with an index in range negates the done flag of that
\* entry and changes nothing else; a second call restores the state.
C6_ToggleFlipsOne ==
    [][(/\ last'.op = "toggle_task"
        /\ 0 <= last'.index
        /\ last'.index < Len(IF last'.flag THEN data.daily ELSE data.todo))
       => LET is_daily == last'.flag
              k == last'.index + 1
              old == IF is_daily THEN data.daily ELSE data.todo
              new == IF is_daily THEN data'.daily ELSE data'.todo
              again == toggle_task([data |-> data', file |-> file'], is_daily, last'.index)
          IN
          /\ Len(new) = Len(old)
          /\ new[k].done = ~ old[k].done
          /\ new[k].text = old[k].text
          /\ \A i \in 1..Len(old) : i # k => new[i] = old[i]
          /\ IF is_daily THEN data'.todo = data.todo ELSE data'.daily = data.daily
          /\ data'.last_date = data.last_date
          /\ again.data = data
          /\ FileHolds(again.file, data)]_vars

C6_Witness ==
    /\ last.op = "toggle_task"
    /\ LET l == IF last.flag THEN data.daily ELSE data.todo IN
        /\ Len(l) >= 2
        /\ last.index = 1
        /\ ~ l[2].done
        /\ l[1].done

\* C7: a reminder tick shows a notification exactly when some entry is not
\* done, with the number of such entries as its count; otherwise it shows
\* nothing and leaves the handle colour alone.
C7_ReminderIffUndone ==
    [][check_reminders
       => LET n == Undone(data.daily) + Undone(data.todo) IN
          /\ (shown'.title = "reminder") <=> (n > 0)
          /\ n > 0 => shown' = ReminderMessage(n)
          /\ n = 0 => (shown' = NoMessage /\ neon_strip' = neon_strip)]_vars

\* a tick has just shown a reminder for one open entry among two
C7_Witness ==
    /\ shown = ReminderMessage(1)
    /\ Undone(data.daily) + Undone(data.todo) = 1
    /\ Len(data.daily) + Len(data.todo) = 2

\* the list and 1-based position of the record the item in row `row` was
\* built from: daily records first, then todo records
RowIsDaily(d, row) == row <= Len(d.daily)
RowPos(d, row) == IF row <= Len(d.daily) THEN row ELSE row - Len(d.daily)

\* C8: a click on a displayed item toggles the record the item was built
\* from and no other; delete in its context menu removes that record and no
\* other.
C8_ItemActsOnItsRecord ==
    [][\A row \in 1..Len(list_widget) :
        LET k == RowPos(data, row) IN
        /\ item_clicked(row)
           => data' = IF RowIsDaily(data, row)
                      THEN [data EXCEPT !.daily[k].done = ~ @]
                      ELSE [data EXCEPT !.todo[k].done = ~ @]
        /\ context_menu(row, TRUE)
           => data' = IF RowIsDaily(data, row)
                      THEN [data EXCEPT !.daily = SubSeq(@, 1, k - 1) \o SubSeq(@, k + 1, Len(@))]
                      ELSE [data EXCEPT !.todo = SubSeq(@, 1, k - 1) \o SubSeq(@, k + 1, Len(@))]]_vars

\* C9: no entry of either list has the empty text.
C9_NoEmptyText ==
    /\ \A i \in 1..Len(data.daily) : data.daily[i].text # <<>>
    /\ \A i \in 1..Len(data.todo) : data.todo[i].text # <<>>

\* C10: the arrow shows the expanded glyph exactly when is_expanded is true.
C10_ArrowAgrees ==
    pc = "running" =>
        /\ (arrow = ARROW_EXPANDED) <=> is_expanded
        /\ (arrow = ARROW_COLLAPSED) <=> ~ is_expanded

====
